---------------------------- MODULE Spec2Model ----------------------------
(***************************************************************************)
(* Model of the DocumentMe backend: the /letters router (routeLetter), the *)
(* authentication middleware, the Letter and User collections, the Google  *)
(* Drive account the service writes to, and the socket.io relay.           *)
(*                                                                         *)
(* A request occupies a slot and advances one await at a time, so that the *)
(* handlers of concurrent requests interleave exactly where the code can   *)
(* be suspended.  Every database and Drive call may fail.                  *)
(***************************************************************************)
EXTENDS Integers, Sequences, FiniteSets, TLC

VARIABLES
    letters,      \* Letter collection: _id -> document
    users,        \* User collection: set of documents (googleId is unique)
    files,        \* Drive: file id -> file, for the files that exist
    folders,      \* Drive: number of folders named "Letters"
    permissions,  \* Drive: <<file id, email>> of every writer permission created
    nextLid,      \* next Letter _id
    nextFid,      \* next Drive file id
    req,          \* request slot -> the request it serves and its locals
    nreq,         \* number of requests received so far
    resp,         \* the response sent last
    sockets,      \* socket.io: the connected sockets
    pending,      \* socket.io: socket -> "edit" payloads sent and not yet handled
    emitted       \* socket.io: socket -> "update" payloads emitted to it

restVars  == <<letters, users, files, folders, permissions, nextLid, nextFid, req, nreq,
               resp>>
relayVars == <<sockets, pending, emitted>>
vars      == <<letters, users, files, folders, permissions, nextLid, nextFid, req, nreq,
               resp, sockets, pending, emitted>>

---------------------------------------------------------------------------
(* Bounds *)

MaxRequests == 3
MaxFiles == 1
MaxEmit == 2
MaxPending == 1

Slots == {1, 2}
SocketIds == {"s1", "s2", "s3"}
Payloads == {"p1", "p2"}

---------------------------------------------------------------------------
(* Inputs *)

\* Authorization headers, as the characters split(" ") sees: a space or a word.
NoHeader == [present |-> FALSE, val |-> <<>>]
Hdr(s) == [present |-> TRUE, val |-> s]
Headers ==
    { NoHeader,
      Hdr(<<"Bearer">>),
      Hdr(<<"Bearer", " ">>),
      Hdr(<<"Bearer", " ", "tokA">>),
      Hdr(<<"Bearer", " ", "tokB">>),
      Hdr(<<"Bearer", " ", "bad">>) }

\* What Firebase decodes the two valid ID tokens to ("" is an absent field).
NoUser == [uid |-> "", id |-> "", email |-> "", name |-> "", role |-> ""]
DecodedA == [uid |-> "u1", id |-> "", email |-> "e1", name |-> "n1", role |-> "user"]
DecodedB == [uid |-> "u2", id |-> "", email |-> "e2", name |-> "", role |-> "admin"]

CollabEmails == {"e2", "e3"}

\* Request bodies of save and update: title and content ("" and <<>> are absent).
Bodies ==
    { [title |-> "t1", content |-> <<"a">>],
      [title |-> "t2", content |-> <<"b", "c">>],
      [title |-> "", content |-> <<"a">>] }

Ops == {"save", "driveFiles", "driveFolder", "all", "addCollab", "collabs",
        "get", "update", "delete", "fixPerms"}

NoSuchId == 0
\* Letter ids a request may name: every id ever given out, and one never given out.
LidInputs == (1 .. (nextLid - 1)) \cup {NoSuchId}

---------------------------------------------------------------------------
(* authMiddleware and verifyToken *)

RECURSIVE Split(_)
\* String.prototype.split(" ")
Split(s) ==
    IF \A i \in 1 .. Len(s) : s[i] # " "
    THEN <<s>>
    ELSE LET k == CHOOSE i \in 1 .. Len(s) :
                     s[i] = " " /\ \A j \in 1 .. (i - 1) : s[j] # " "
         IN <<SubSeq(s, 1, k - 1)>> \o Split(SubSeq(s, k + 1, Len(s)))

\* req.headers.authorization?.split(" ")[1]; defined = FALSE is undefined
ExtractToken(hdr) ==
    IF ~hdr.present THEN [defined |-> FALSE, val |-> <<>>]
    ELSE LET parts == Split(hdr.val)
         IN IF Len(parts) >= 2 THEN [defined |-> TRUE, val |-> parts[2]]
            ELSE [defined |-> FALSE, val |-> <<>>]

\* !token
TokenMissing(tok) == ~tok.defined \/ tok.val = <<>>

\* admin.auth().verifyIdToken(token): the decoded tokens it can resolve to; it
\* rejects when the set is empty, and may reject a well-formed token too
\* (expired, revoked, key fetch failed).
VerifyIdToken(tok) ==
    IF tok.val = <<"tokA">> THEN {DecodedA}
    ELSE IF tok.val = <<"tokB">> THEN {DecodedB}
    ELSE {}

\* verifyToken: the decoded token, or null (NoUser) when verifyIdToken rejects
VerifyTokenResults(tok) == VerifyIdToken(tok) \cup {NoUser}

\* !decodedToken
DecodedMissing(decoded) == decoded = NoUser

\* req.user.uid || req.user.id
UserIdOf(u) == IF u.uid # "" THEN u.uid ELSE u.id

---------------------------------------------------------------------------
(* Documents *)

NoDoc == [userId |-> "", title |-> "", content |-> <<>>, googleDriveId |-> 0,
          collaborators |-> <<>>]

\* no Drive file
NoFile == [name |-> <<>>, body |-> <<>>, desc |-> <<>>, parent |-> 0]

\* new Letter({ userId, title, content, googleDriveId })
NewLetter(userId, title, content, fileId) ==
    [userId |-> userId, title |-> title, content |-> content,
     googleDriveId |-> fileId, collaborators |-> <<>>]

\* LetterSchema: userId, title, content and googleDriveId are required
LetterValid(l) ==
    l.userId # "" /\ l.title # "" /\ l.content # <<>> /\ l.googleDriveId # 0

\* new User({ googleId, name: req.user.name || "Unknown User", email, role: "user" })
NewUser(u) ==
    [googleId |-> UserIdOf(u),
     name |-> IF u.name # "" THEN u.name ELSE "Unknown User",
     email |-> u.email, role |-> "user"]

\* Array.prototype.includes
Includes(seq, x) == \E i \in 1 .. Len(seq) : seq[i] = x

SubstrLimit == 100
\* content.substring(0, 100)
Substring(content) ==
    SubSeq(content, 1, IF Len(content) < SubstrLimit THEN Len(content) ELSE SubstrLimit)

\* `Letter content: ${content.substring(0, 100)}...`
Description(content) == <<"Letter content: ">> \o Substring(content) \o <<"...">>

---------------------------------------------------------------------------
(* Request slots *)

Idle ==
    [pc |-> "idle", op |-> "", hdr |-> NoHeader, user |-> NoUser,
     lid |-> NoSuchId, email |-> "", title |-> "", content |-> <<>>,
     doc |-> NoDoc, userLocal |-> "none", folderId |-> 0, fileId |-> 0,
     todo |-> <<>>, was |-> NoFile]

\* The first await of each route's handler.
FirstPc(op) ==
    CASE op = "save" -> "s_findUser"
      [] op = "addCollab" -> "a_find"
      [] op = "update" -> "u_find"
      [] op = "delete" -> "d_find"
      [] op = "fixPerms" -> "f_start"
      [] OTHER -> "read"

\* the handler goes on: nothing is sent
Set(r, rec) ==
    /\ req' = [req EXCEPT ![r] = rec]
    /\ UNCHANGED resp

NoResponse == [op |-> "", status |-> 0, uid |-> "", lid |-> NoSuchId, fileId |-> 0]

\* res.status(code).json(...) by a request whose locals are q: the response is
\* sent and the request is over.  Of the response the model keeps the status,
\* whom it answers, and the letter and Drive file the request was about.
Answer(r, q, code) ==
    /\ resp' = [op |-> q.op, status |-> code, uid |-> UserIdOf(q.user),
                lid |-> q.lid, fileId |-> q.fileId]
    /\ req' = [req EXCEPT ![r] = Idle]

Respond(r, code) == Answer(r, req[r], code)

Free(r) == req[r].pc = "idle"

TypeOK ==
    /\ nreq \in 0 .. MaxRequests
    /\ resp.status \in {0, 200, 201, 401, 403, 404, 500}
    /\ DOMAIN letters \subseteq 1 .. (nextLid - 1)
    /\ DOMAIN files \subseteq 1 .. (nextFid - 1)
    /\ \A r \in Slots : req[r].pc \in
          {"idle", "mw", "route", "read", "s_findUser", "s_saveUser", "s_folder",
           "s_mkFolder", "s_create", "s_perm", "s_letter", "a_find", "a_grant",
           "a_save", "u_find", "u_save", "u_drive", "u_get", "d_find", "d_drive",
           "d_db", "f_start", "f_user", "f_grant"}

Init ==
    /\ letters = <<>>
    /\ users = {}
    /\ files = <<>>
    /\ folders = 0
    /\ permissions = {}
    /\ nextLid = 1
    /\ nextFid = 1
    /\ req = [r \in Slots |-> Idle]
    /\ nreq = 0
    /\ resp = NoResponse
    /\ sockets = {}
    /\ pending = [s \in SocketIds |-> <<>>]
    /\ emitted = [s \in SocketIds |-> <<>>]

\* The Drive files created so far and those the saves under way may still create.
FilesClaimed ==
    (nextFid - 1) + Cardinality({q \in Slots : req[q].op = "save" /\ req[q].fileId = 0})

\* A request for a /letters route reaches the server; it is served in the
\* first free slot (slots are interchangeable).  authMiddleware is the first
\* handler of every route and does not look at the route, so the route is
\* drawn where next() hands over to it.
Arrive(r) ==
    /\ Free(r)
    /\ \A q \in Slots : Free(q) => ~(q < r)
    /\ nreq < MaxRequests
    /\ \E hdr \in Headers : Set(r, [Idle EXCEPT !.pc = "mw", !.hdr = hdr])
    /\ nreq' = nreq + 1
    /\ UNCHANGED <<letters, users, files, folders, permissions, nextLid, nextFid>>
    /\ UNCHANGED relayVars

\* Mutant of MwNext: next() is called whatever verifyToken returned.
MwNextAlways(decoded) == TRUE

\* next() is called unless the decoded token is missing
MwNext(decoded) == ~DecodedMissing(decoded)

\* req.user = decodedToken; next(): the route's handler starts.  After it the
\* header is not read again.
Route(r, decoded) ==
    \E op \in Ops :
        /\ op = "save" => FilesClaimed < MaxFiles
        /\ Set(r, [req[r] EXCEPT !.user = decoded, !.hdr = NoHeader, !.op = op,
                                 !.pc = FirstPc(op)])

\* authMiddleware
AuthMiddleware(r) ==
    /\ req[r].pc = "mw"
    /\ LET token == ExtractToken(req[r].hdr)
       IN IF TokenMissing(token)
          THEN Respond(r, 401)
          ELSE \E decoded \in VerifyTokenResults(token) :
                  IF MwNext(decoded)
                  THEN Route(r, decoded)
                  ELSE Respond(r, 401)
    /\ UNCHANGED <<letters, users, files, folders, permissions, nextLid, nextFid, nreq>>
    /\ UNCHANGED relayVars

---------------------------------------------------------------------------
(* Database and Drive primitives *)

\* a function without the key k
Without(f, k) == [x \in (DOMAIN f) \ {k} |-> f[x]]

\* a function with the key k bound to v
With(f, k, v) == [x \in (DOMAIN f) \cup {k} |-> IF x = k THEN v ELSE f[x]]

\* User.findOne({ googleId }): the documents it can return ({} is null)
FindUser(googleId) == {u \in users : u.googleId = googleId}

\* the outcome of a call that either succeeds or throws
Outcomes == {"ok", "throw"}

---------------------------------------------------------------------------
(* POST /letters/save *)

\* Mutant of SaveAfterUserError: the user error ends the request.
SaveAbortOnUserError(r) == Respond(r, 500)

\* catch (userErr): user = { googleId: userId, email: userEmail }, and on
SaveAfterUserError(r) ==
    Set(r, [req[r] EXCEPT !.userLocal = "fallback", !.pc = "s_folder"])

\* User.findOne({ googleId: userId })
SaveFindUser(r) ==
    /\ req[r].pc = "s_findUser"
    /\ \E out \in Outcomes :
          IF out = "throw"
          THEN SaveAfterUserError(r)
          ELSE IF FindUser(UserIdOf(req[r].user)) # {}
               THEN Set(r, [req[r] EXCEPT !.userLocal = "doc", !.pc = "s_folder"])
               ELSE Set(r, [req[r] EXCEPT !.pc = "s_saveUser"])
    /\ UNCHANGED <<letters, users, files, folders, permissions, nextLid, nextFid, nreq>>
    /\ UNCHANGED relayVars

\* user = new User(...); await user.save()  (googleId is unique)
SaveCreateUser(r) ==
    /\ req[r].pc = "s_saveUser"
    /\ \E out \in Outcomes :
          IF out = "throw" \/ FindUser(UserIdOf(req[r].user)) # {}
          THEN /\ SaveAfterUserError(r)
               /\ UNCHANGED users
          ELSE /\ users' = users \cup {NewUser(req[r].user)}
               /\ Set(r, [req[r] EXCEPT !.userLocal = "doc", !.pc = "s_folder"])
    /\ UNCHANGED <<letters, files, folders, permissions, nextLid, nextFid, nreq>>
    /\ UNCHANGED relayVars

\* getOrCreateLettersFolder: drive.files.list of the folders named "Letters"
SaveListFolder(r) ==
    /\ req[r].pc = "s_folder"
    /\ \E out \in Outcomes :
          IF out = "throw" THEN Respond(r, 500)
          ELSE IF folders > 0
               THEN Set(r, [req[r] EXCEPT !.folderId = 1, !.pc = "s_create"])
               ELSE Set(r, [req[r] EXCEPT !.pc = "s_mkFolder"])
    /\ UNCHANGED <<letters, users, files, folders, permissions, nextLid, nextFid, nreq>>
    /\ UNCHANGED relayVars

\* getOrCreateLettersFolder: drive.files.create of the folder
SaveMakeFolder(r) ==
    /\ req[r].pc = "s_mkFolder"
    /\ \E out \in Outcomes :
          IF out = "throw"
          THEN /\ Respond(r, 500)
               /\ UNCHANGED folders
          ELSE /\ folders' = folders + 1
               /\ Set(r, [req[r] EXCEPT !.folderId = folders + 1, !.pc = "s_create"])
    /\ UNCHANGED <<letters, users, files, permissions, nextLid, nextFid, nreq>>
    /\ UNCHANGED relayVars

\* drive.files.create({ resource: { name: `${title}.txt`, parents }, media })
\* The body of the request is drawn here, where it is first read.
SaveCreateFile(r) ==
    /\ req[r].pc = "s_create"
    /\ \E out \in Outcomes, body \in Bodies :
          IF out = "throw"
          THEN /\ Respond(r, 500)
               /\ UNCHANGED <<files, nextFid>>
          ELSE /\ files' = With(files, nextFid,
                              [name |-> <<body.title, ".txt">>, body |-> body.content,
                               desc |-> <<>>, parent |-> req[r].folderId])
               /\ nextFid' = nextFid + 1
               /\ Set(r, [req[r] EXCEPT !.title = body.title, !.content = body.content,
                                        !.fileId = nextFid,
                                        !.pc = IF req[r].user.email # ""
                                               THEN "s_perm" ELSE "s_letter"])
    /\ UNCHANGED <<letters, users, folders, permissions, nextLid, nreq>>
    /\ UNCHANGED relayVars

\* Mutant of SaveGrant: a failed grant ends the request with 500.
SaveGrantOrFail(r) ==
    /\ req[r].pc = "s_perm"
    /\ \E out \in Outcomes :
          IF out = "throw" \/ req[r].fileId \notin DOMAIN files
          THEN /\ UNCHANGED permissions
               /\ Respond(r, 500)
          ELSE /\ permissions' = permissions \cup {<<req[r].fileId, req[r].user.email>>}
               /\ Set(r, [req[r] EXCEPT !.pc = "s_letter"])
    /\ UNCHANGED <<letters, users, files, folders, nextLid, nextFid, nreq>>
    /\ UNCHANGED relayVars

\* drive.permissions.create for the creator; a failure is logged and ignored
SaveGrant(r) ==
    /\ req[r].pc = "s_perm"
    /\ \E out \in Outcomes :
          IF out = "throw" \/ req[r].fileId \notin DOMAIN files
          THEN UNCHANGED permissions
          ELSE permissions' = permissions \cup {<<req[r].fileId, req[r].user.email>>}
    /\ Set(r, [req[r] EXCEPT !.pc = "s_letter"])
    /\ UNCHANGED <<letters, users, files, folders, nextLid, nextFid, nreq>>
    /\ UNCHANGED relayVars

\* newLetter = new Letter(...); await newLetter.save(); res.status(201)
SavePersist(r) ==
    /\ req[r].pc = "s_letter"
    /\ LET newLetter == NewLetter(UserIdOf(req[r].user), req[r].title,
                                  req[r].content, req[r].fileId)
       IN \E out \in Outcomes :
             IF out = "throw" \/ ~LetterValid(newLetter)
             THEN /\ Respond(r, 500)
                  /\ UNCHANGED <<letters, nextLid>>
             ELSE /\ letters' = With(letters, nextLid, newLetter)
                  /\ nextLid' = nextLid + 1
                  /\ Answer(r, [req[r] EXCEPT !.lid = nextLid], 201)
    /\ UNCHANGED <<users, files, folders, permissions, nextFid, nreq>>
    /\ UNCHANGED relayVars

---------------------------------------------------------------------------
(* POST /letters/add-collaborator *)

\* Letter.findById(letterId), and the two 404 answers
AddCollabFind(r) ==
    /\ req[r].pc = "a_find"
    /\ \E out \in Outcomes, letterId \in LidInputs, collaboratorEmail \in CollabEmails :
          LET q == [req[r] EXCEPT !.lid = letterId, !.email = collaboratorEmail]
          IN IF out = "throw" THEN Respond(r, 500)
             ELSE IF letterId \notin DOMAIN letters THEN Answer(r, q, 404)
             ELSE IF letters[letterId].googleDriveId = 0 THEN Answer(r, q, 404)
             ELSE Set(r, [q EXCEPT !.doc = letters[letterId],
                                   !.fileId = letters[letterId].googleDriveId,
                                   !.pc = "a_grant"])
    /\ UNCHANGED <<letters, users, files, folders, permissions, nextLid, nextFid, nreq>>
    /\ UNCHANGED relayVars

\* Mutant of AddCollabGrantFailed: the failed grant is ignored and the
\* collaborator recorded all the same.
AddCollabGrantIgnored(r) ==
    /\ Set(r, [req[r] EXCEPT !.doc.collaborators = Append(@, req[r].email),
                             !.pc = "a_save"])
    /\ UNCHANGED permissions

\* what follows a failed drive.permissions.create: the catch block
AddCollabGrantFailed(r) ==
    /\ Respond(r, 500)
    /\ UNCHANGED permissions

\* drive.permissions.create({ role: "writer", emailAddress: collaboratorEmail }),
\* then the includes test and the push on the loaded document
AddCollabGrant(r) ==
    /\ req[r].pc = "a_grant"
    /\ \E out \in Outcomes :
          IF out = "throw" \/ req[r].fileId \notin DOMAIN files
          THEN AddCollabGrantFailed(r)
          ELSE /\ permissions' = permissions \cup {<<req[r].fileId, req[r].email>>}
               /\ IF Includes(req[r].doc.collaborators, req[r].email)
                  THEN Respond(r, 200)
                  ELSE Set(r, [req[r] EXCEPT
                                 !.doc.collaborators = Append(@, req[r].email),
                                 !.pc = "a_save"])
    /\ UNCHANGED <<letters, users, files, folders, nextLid, nextFid, nreq>>
    /\ UNCHANGED relayVars

\* letter.save() after collaborators.push(email): Mongoose sends the push as
\* { $push: { collaborators: email } } on the stored document.
PushCollaborator(l, email) == [l EXCEPT !.collaborators = Append(@, email)]

\* A save of a document that is gone either throws or changes nothing,
\* by the Mongoose version.
AddCollabSave(r) ==
    /\ req[r].pc = "a_save"
    /\ \E out \in Outcomes :
          IF out = "throw"
          THEN /\ Respond(r, 500)
               /\ UNCHANGED letters
          ELSE IF req[r].lid \notin DOMAIN letters
               THEN /\ UNCHANGED letters
                    /\ \E code \in {200, 500} : Respond(r, code)
               ELSE /\ letters' = [letters EXCEPT ![req[r].lid] =
                                      PushCollaborator(@, req[r].email)]
                    /\ Respond(r, 200)
    /\ UNCHANGED <<users, files, folders, permissions, nextLid, nextFid, nreq>>
    /\ UNCHANGED relayVars

---------------------------------------------------------------------------
(* PUT /letters/:id *)

\* Letter.findById(req.params.id); letter.title = title; letter.content = content
UpdateFind(r) ==
    /\ req[r].pc = "u_find"
    /\ \E out \in Outcomes, id \in LidInputs, body \in Bodies :
          LET q == [req[r] EXCEPT !.lid = id]
          IN IF out = "throw" THEN Respond(r, 500)
             ELSE IF id \notin DOMAIN letters THEN Answer(r, q, 404)
             ELSE Set(r, [q EXCEPT !.doc = letters[id], !.title = body.title,
                                   !.content = body.content, !.pc = "u_save"])
    /\ UNCHANGED <<letters, users, files, folders, permissions, nextLid, nextFid, nreq>>
    /\ UNCHANGED relayVars

\* Mutant of SetModified: the save writes the whole loaded document back.
SetWholeDocument(l, doc, title, content) ==
    [doc EXCEPT !.title = title, !.content = content]

\* letter.save(): Mongoose validates and $sets the paths that were modified
SetModified(l, doc, title, content) ==
    [l EXCEPT !.title = IF title # doc.title THEN title ELSE @,
              !.content = IF content # doc.content THEN content ELSE @]

\* after the save: if (letter.googleDriveId) { ... } else { res.status(200) }
UpdateSaved(r) ==
    IF req[r].doc.googleDriveId # 0 THEN Set(r, [req[r] EXCEPT !.pc = "u_drive"])
    ELSE Respond(r, 200)

UpdateSave(r) ==
    /\ req[r].pc = "u_save"
    /\ LET q == req[r]
           edited == [q.doc EXCEPT !.title = q.title, !.content = q.content]
       IN \E out \in Outcomes :
             IF out = "throw" \/ ~LetterValid(edited)
             THEN /\ Respond(r, 500)
                  /\ UNCHANGED letters
             ELSE IF q.lid \notin DOMAIN letters
                  THEN /\ UNCHANGED letters
                       /\ \/ Respond(r, 500)
                          \/ UpdateSaved(r)
                  ELSE /\ letters' = [letters EXCEPT ![q.lid] =
                                         SetModified(@, q.doc, q.title, q.content)]
                       /\ UpdateSaved(r)
    /\ UNCHANGED <<users, files, folders, permissions, nextLid, nextFid, nreq>>
    /\ UNCHANGED relayVars

\* Mutant of UpdateDriveFailed: the title and content the request loaded are
\* written back when the Drive update fails.
UpdateDriveFailedRollback(r) ==
    /\ Respond(r, 500)
    /\ UNCHANGED files
    /\ letters' = IF req[r].lid \in DOMAIN letters
                  THEN [letters EXCEPT ![req[r].lid].title = req[r].doc.title,
                                       ![req[r].lid].content = req[r].doc.content]
                  ELSE letters

\* drive.files.update threw: the catch block answers 500, and that is all
UpdateDriveFailed(r) ==
    /\ Respond(r, 500)
    /\ UNCHANGED <<letters, files>>

\* drive.files.update({ fileId, resource: { name: title, description } })
\* The field was records the file as the update found it (a history record:
\* the code keeps none).
UpdateDrive(r) ==
    /\ req[r].pc = "u_drive"
    /\ LET fid == req[r].doc.googleDriveId
       IN \E out \in Outcomes :
             IF out = "throw" \/ fid \notin DOMAIN files
             THEN UpdateDriveFailed(r)
             ELSE /\ files' = [files EXCEPT ![fid].name = <<req[r].title>>,
                                            ![fid].desc = Description(req[r].content)]
                  /\ Set(r, [req[r] EXCEPT !.was = files[fid], !.pc = "u_get"])
                  /\ UNCHANGED letters
    /\ UNCHANGED <<users, folders, permissions, nextLid, nextFid, nreq>>
    /\ UNCHANGED relayVars

\* drive.files.get({ fileId, fields: "webViewLink,webContentLink" }); res.status(200)
UpdateGetLink(r) ==
    /\ req[r].pc = "u_get"
    /\ \E out \in Outcomes :
          IF out = "throw" \/ req[r].doc.googleDriveId \notin DOMAIN files
          THEN Respond(r, 500)
          ELSE Respond(r, 200)
    /\ UNCHANGED <<letters, users, files, folders, permissions, nextLid, nextFid, nreq>>
    /\ UNCHANGED relayVars

---------------------------------------------------------------------------
(* DELETE /letters/:id *)

\* Mutant of NotOwner: the ownership test is left out.
NotOwnerNever(letter, userId) == FALSE

\* letter.userId !== userId && letter.userId.toString() !== userId
NotOwner(letter, userId) == letter.userId # userId /\ letter.userId # userId

\* Letter.findById(letterId), the 404 answer and the ownership test
DeleteFind(r) ==
    /\ req[r].pc = "d_find"
    /\ \E out \in Outcomes, letterId \in LidInputs :
          LET q == [req[r] EXCEPT !.lid = letterId]
          IN IF out = "throw" THEN Respond(r, 500)
             ELSE IF letterId \notin DOMAIN letters
                  THEN Answer(r, q, 404)
             ELSE IF NotOwner(letters[letterId], UserIdOf(q.user))
                  THEN Answer(r, q, 403)
             ELSE Set(r, [q EXCEPT !.doc = letters[letterId],
                                   !.fileId = letters[letterId].googleDriveId,
                                   !.pc = IF letters[letterId].googleDriveId # 0
                                          THEN "d_drive" ELSE "d_db"])
    /\ UNCHANGED <<letters, users, files, folders, permissions, nextLid, nextFid, nreq>>
    /\ UNCHANGED relayVars

\* Mutant of DeleteAfterDriveError: the Drive error ends the request.
DeleteAbortOnDriveError(r) == Respond(r, 500)

\* what follows a failed drive.files.delete: logged, then on to the database
DeleteAfterDriveError(r) == Set(r, [req[r] EXCEPT !.pc = "d_db"])

\* drive.files.delete({ fileId: letter.googleDriveId })
DeleteDrive(r) ==
    /\ req[r].pc = "d_drive"
    /\ \E out \in Outcomes :
          IF out = "throw" \/ req[r].doc.googleDriveId \notin DOMAIN files
          THEN /\ DeleteAfterDriveError(r)
               /\ UNCHANGED files
          ELSE /\ files' = Without(files, req[r].doc.googleDriveId)
               /\ Set(r, [req[r] EXCEPT !.pc = "d_db"])
    /\ UNCHANGED <<letters, users, folders, permissions, nextLid, nextFid, nreq>>
    /\ UNCHANGED relayVars

\* Mutant of DeleteFromDb: the owner's User record goes with the letter.
DeleteCascade(letterId) ==
    /\ letters' = Without(letters, letterId)
    /\ users' = IF letterId \in DOMAIN letters
                THEN {u \in users : u.googleId # letters[letterId].userId}
                ELSE users

\* the collections after Letter.findByIdAndDelete(letterId)
DeleteFromDb(letterId) ==
    /\ letters' = Without(letters, letterId)
    /\ UNCHANGED users

\* Mutant of DeleteDbFailed: the Drive file is put back when the database
\* deletion fails.
DeleteDbFailedRollback(r) ==
    /\ Respond(r, 500)
    /\ UNCHANGED <<letters, users>>
    /\ files' = With(files, req[r].doc.googleDriveId,
                     [name |-> <<req[r].doc.title, ".txt">>, body |-> req[r].doc.content,
                      desc |-> <<>>, parent |-> 1])

\* Letter.findByIdAndDelete threw: the catch block answers 500, and that is all
DeleteDbFailed(r) ==
    /\ Respond(r, 500)
    /\ UNCHANGED <<letters, users, files>>

\* Letter.findByIdAndDelete(letterId); res.status(200)
DeleteDb(r) ==
    /\ req[r].pc = "d_db"
    /\ \E out \in Outcomes :
          IF out = "throw"
          THEN DeleteDbFailed(r)
          ELSE /\ DeleteFromDb(req[r].lid)
               /\ Respond(r, 200)
               /\ UNCHANGED files
    /\ UNCHANGED <<folders, permissions, nextLid, nextFid, nreq>>
    /\ UNCHANGED relayVars

---------------------------------------------------------------------------
(* POST /letters/fix-permissions *)

RECURSIVE InIdOrder(_)
\* the documents of Letter.find({}) in _id order, as <<userId, googleDriveId>>
InIdOrder(ids) ==
    IF ids = {} THEN <<>>
    ELSE LET m == CHOOSE i \in ids : \A j \in ids : i <= j
         IN <<(<<letters[m].userId, letters[m].googleDriveId>>)>> \o InIdOrder(ids \ {m})

\* the loop is left when no letter remains
FixNext(r, rest) ==
    IF rest = <<>> THEN Respond(r, 200)
    ELSE Set(r, [req[r] EXCEPT !.todo = rest, !.pc = "f_user"])

\* req.user.role !== "admin" -> 403; Letter.find({})
FixStart(r) ==
    /\ req[r].pc = "f_start"
    /\ IF req[r].user.role # "admin" THEN Respond(r, 403)
       ELSE \E out \in Outcomes :
               IF out = "throw" THEN Respond(r, 500)
               ELSE FixNext(r, InIdOrder(DOMAIN letters))
    /\ UNCHANGED <<letters, users, files, folders, permissions, nextLid, nextFid, nreq>>
    /\ UNCHANGED relayVars

\* User.findOne({ googleId: letter.userId }) for the letter at hand
FixFindUser(r) ==
    /\ req[r].pc = "f_user"
    /\ LET letter == Head(req[r].todo)
           found == FindUser(letter[1])
       IN \E out \in Outcomes :
             IF out = "throw" THEN FixNext(r, Tail(req[r].todo))
             ELSE IF \E u \in found : u.email # "" /\ letter[2] # 0
                  THEN Set(r, [req[r] EXCEPT
                                 !.email = (CHOOSE u \in found : TRUE).email,
                                 !.pc = "f_grant"])
                  ELSE FixNext(r, Tail(req[r].todo))
    /\ UNCHANGED <<letters, users, files, folders, permissions, nextLid, nextFid, nreq>>
    /\ UNCHANGED relayVars

\* drive.permissions.create for the owner of the letter at hand
FixGrant(r) ==
    /\ req[r].pc = "f_grant"
    /\ LET letter == Head(req[r].todo)
       IN \E out \in Outcomes :
             /\ IF out = "throw" \/ letter[2] \notin DOMAIN files
                THEN UNCHANGED permissions
                ELSE permissions' = permissions \cup {<<letter[2], req[r].email>>}
             /\ FixNext(r, Tail(req[r].todo))
    /\ UNCHANGED <<letters, users, files, folders, nextLid, nextFid, nreq>>
    /\ UNCHANGED relayVars

---------------------------------------------------------------------------
(* The read routes: GET /all, /:id, /:id/collaborators, /drive-files,       *)
(* /drive-files/:folderId.  They write nothing; only the status is kept.   *)

\* GET /:id and GET /:id/collaborators answer 404 for a letter that is not there
ReadStatus(op, id) ==
    IF op \in {"get", "collabs"} /\ id \notin DOMAIN letters THEN 404 ELSE 200

Read(r) ==
    /\ req[r].pc = "read"
    /\ \E out \in Outcomes, id \in LidInputs :
          IF out = "throw" THEN Respond(r, 500)
          ELSE Respond(r, ReadStatus(req[r].op, id))
    /\ UNCHANGED <<letters, users, files, folders, permissions, nextLid, nextFid, nreq>>
    /\ UNCHANGED relayVars

---------------------------------------------------------------------------
(* socket.io relay *)

\* io.on("connection")
Connect(s) ==
    /\ s \notin sockets
    /\ sockets' = sockets \cup {s}
    /\ UNCHANGED <<pending, emitted>>
    /\ UNCHANGED restVars

\* socket.on("disconnect"): what the client had sent and was not handled is lost
Disconnect(s) ==
    /\ s \in sockets
    /\ sockets' = sockets \ {s}
    /\ pending' = [pending EXCEPT ![s] = <<>>]
    /\ UNCHANGED emitted
    /\ UNCHANGED restVars

\* a connected client sends an "edit" event
SendEdit(s) ==
    /\ s \in sockets
    /\ Len(pending[s]) < MaxPending
    /\ \E data \in Payloads : pending' = [pending EXCEPT ![s] = Append(@, data)]
    /\ UNCHANGED <<sockets, emitted>>
    /\ UNCHANGED restVars

\* Mutant of BroadcastTargets: io.emit, which reaches the sender too.
BroadcastToAll(s) == sockets

\* socket.broadcast: every connected socket but the sender
BroadcastTargets(s) == sockets \ {s}

\* socket.on("edit", (data) => socket.broadcast.emit("update", data))
Edit(s) ==
    /\ s \in sockets
    /\ pending[s] # <<>>
    /\ \A t \in BroadcastTargets(s) : Len(emitted[t]) < MaxEmit
    /\ LET data == Head(pending[s])
       IN emitted' = [t \in SocketIds |->
                        IF t \in BroadcastTargets(s) THEN Append(emitted[t], data)
                        ELSE emitted[t]]
    /\ pending' = [pending EXCEPT ![s] = Tail(@)]
    /\ UNCHANGED sockets
    /\ UNCHANGED restVars

---------------------------------------------------------------------------
(* Specifications *)

Next ==
    \E r \in Slots :
        \/ Arrive(r)
        \/ AuthMiddleware(r)
        \/ SaveFindUser(r)
        \/ SaveCreateUser(r)
        \/ SaveListFolder(r)
        \/ SaveMakeFolder(r)
        \/ SaveCreateFile(r)
        \/ SaveGrant(r)
        \/ SavePersist(r)
        \/ AddCollabFind(r)
        \/ AddCollabGrant(r)
        \/ AddCollabSave(r)
        \/ UpdateFind(r)
        \/ UpdateSave(r)
        \/ UpdateDrive(r)
        \/ UpdateGetLink(r)
        \/ DeleteFind(r)
        \/ DeleteDrive(r)
        \/ DeleteDb(r)
        \/ FixStart(r)
        \/ FixFindUser(r)
        \/ FixGrant(r)
        \/ Read(r)

Spec == Init /\ [][Next]_vars

NextRelay ==
    \E s \in SocketIds :
        \/ Connect(s)
        \/ Disconnect(s)
        \/ SendEdit(s)
        \/ Edit(s)

SpecRelay == Init /\ [][NextRelay]_vars
---------------------------------------------------------------------------
(* Properties *)

stores == <<letters, users, files, folders, permissions>>

\* the step is one of the request in slot r
Acts(r) == req'[r] # req[r]

\* the step ends the request in slot r with the given status
Answers(r, code) == Acts(r) /\ req'[r] = Idle /\ resp'.status = code /\ resp'.op = req[r].op

Authenticated == {DecodedA, DecodedB}

\* C1: every /letters route runs its handler only for an authenticated request.
\* The middleware step of a request whose header carries no token, or whose
\* token verifyToken resolves to null, answers 401, never hands over to the
\* handler, and changes no Letter, User or Drive state; a request enters a
\* handler only through the middleware, with req.user the decoded token of
\* its header; and every handler step is of a request with req.user set.
C1_AuthRequired ==
    [][\A r \in Slots :
         /\ (req[r].pc = "idle" /\ Acts(r)) =>
               req'[r].pc = "mw" /\ UNCHANGED stores
         /\ (req[r].pc = "mw" /\ Acts(r)) =>
               LET tok == ExtractToken(req[r].hdr)
                   refused == Answers(r, 401)
                   passed == /\ req'[r].pc = FirstPc(req'[r].op)
                             /\ req'[r].op \in Ops
                             /\ req'[r].user \in VerifyIdToken(tok)
                             /\ resp' = resp
               IN /\ UNCHANGED stores
                  /\ refused \/ passed
                  /\ (TokenMissing(tok) \/ VerifyIdToken(tok) = {}) => refused
         /\ (req[r].pc \notin {"idle", "mw"} /\ Acts(r)) =>
               req[r].user \in Authenticated
      ]_vars

\* C1 witness: a request was refused with 401 while a letter is stored, and
\* the letter is still there.
C1_Witness ==
    /\ resp.status = 401 /\ resp.uid = ""
    /\ letters # <<>>
    /\ \A r \in Slots : req[r].pc = "idle"

\* C2: the relay forwards each "edit" it handles from a connected socket s as
\* exactly one "update" with the same payload to every other connected socket
\* and none to s; nothing is emitted otherwise, and the server's own state
\* (the set of connected sockets) is as before.
C2_Relay ==
    [][/\ \A s \in SocketIds :
            (s \in sockets /\ s \in sockets' /\ Len(pending'[s]) < Len(pending[s])) =>
               /\ emitted' = [t \in SocketIds |->
                                IF t \in sockets /\ t # s
                                THEN Append(emitted[t], Head(pending[s]))
                                ELSE emitted[t]]
               /\ sockets' = sockets
               /\ UNCHANGED restVars
       /\ emitted' # emitted =>
            \E s \in sockets : s \in sockets' /\ Len(pending'[s]) < Len(pending[s])
      ]_vars

\* C2 witness: with three sockets connected, one has sent an edit that the two
\* others were sent and it was not.
C2_Witness ==
    /\ sockets = SocketIds
    /\ \E s \in SocketIds :
          /\ emitted[s] = <<>>
          /\ pending[s] = <<>>
          /\ \A t \in SocketIds \ {s} : emitted[t] = <<"p1">>

\* C3: DELETE /letters/:id is for the owner only.  The lookup step changes
\* nothing; it answers 403 only for an existing letter of another user and
\* 404 only for a letter that is not there, and goes on only for a letter
\* whose userId is the requester's id.  A Letter or a Drive file disappears
\* only in a step of a delete request of the letter's owner, and a delete
\* request modifies no Letter or Drive file that stays.
C3_DeleteOwnerOnly ==
    [][/\ \A r \in Slots :
            /\ (req[r].pc = "d_find" /\ Acts(r)) =>
                  /\ UNCHANGED stores
                  /\ req'[r] = Idle =>
                        /\ resp'.status \in {403, 404, 500}
                        /\ resp'.status = 403 =>
                              /\ resp'.lid \in DOMAIN letters
                              /\ letters[resp'.lid].userId # UserIdOf(req[r].user)
                        /\ resp'.status = 404 => resp'.lid \notin DOMAIN letters
                  /\ req'[r] # Idle =>
                        /\ req'[r].lid \in DOMAIN letters
                        /\ letters[req'[r].lid].userId = UserIdOf(req[r].user)
            /\ (req[r].op = "delete" /\ Acts(r)) =>
                  /\ \A l \in DOMAIN letters \cap DOMAIN letters' : letters'[l] = letters[l]
                  /\ \A f \in DOMAIN files \cap DOMAIN files' : files'[f] = files[f]
       /\ \A l \in DOMAIN letters \ DOMAIN letters' :
            \E q \in Slots : /\ req[q].op = "delete" /\ Acts(q)
                             /\ req[q].lid = l
                             /\ letters[l].userId = UserIdOf(req[q].user)
       /\ \A f \in DOMAIN files \ DOMAIN files' :
            \E q \in Slots : /\ req[q].op = "delete" /\ Acts(q)
                             /\ req[q].doc.googleDriveId = f
                             /\ req[q].doc.userId = UserIdOf(req[q].user)
      ]_vars

\* C3 witness: a delete by another user was answered 403; the letter and its
\* Drive file are still there.
C3_Witness ==
    /\ resp.op = "delete" /\ resp.status = 403
    /\ resp.lid \in DOMAIN letters
    /\ letters[resp.lid].userId # resp.uid
    /\ letters[resp.lid].googleDriveId \in DOMAIN files

\* a delete answered 200 leaves no Letter with the id it named
DeletedIsGone ==
    (resp.op = "delete" /\ resp.status = 200) => resp.lid \notin DOMAIN letters

\* C4: delete is best-effort towards Drive.  Whatever the outcome of the Drive
\* deletion, the request goes on to the database deletion without answering;
\* the database step answers 200 with the Letter removed, or 500 with the
\* collection unchanged; and after a 200 no Letter with that id exists.
C4_DeleteBestEffort ==
    [][/\ \A r \in Slots :
            /\ (req[r].pc = "d_drive" /\ Acts(r)) =>
                  /\ req'[r].pc = "d_db"
                  /\ UNCHANGED <<letters, resp>>
            /\ (req[r].pc = "d_db" /\ Acts(r)) =>
                  \/ Answers(r, 200) /\ req[r].lid \notin DOMAIN letters'
                  \/ Answers(r, 500) /\ UNCHANGED letters
       /\ DeletedIsGone'
      ]_vars

\* C4 witness: a delete was answered 200 although the Drive file is still
\* there (its deletion failed); the Letter is gone.
C4_Witness ==
    /\ resp.op = "delete" /\ resp.status = 200
    /\ resp.fileId \in DOMAIN files
    /\ resp.lid \notin DOMAIN letters
    /\ resp.lid # NoSuchId

\* C5: the dual delete is not transactional.  A Drive file is removed only by
\* the Drive step of a delete, which comes before that request's database
\* step; a Letter is removed only by the database step; when the database
\* step fails the answer is 500 and neither collection nor Drive changes; and
\* a file id that has left Drive never comes back (files appear only with a
\* fresh id).
C5_NotTransactional ==
    [][/\ \A r \in Slots :
            (req[r].pc = "d_db" /\ Acts(r) /\ resp'.status = 500) =>
               /\ Answers(r, 500)
               /\ UNCHANGED <<letters, files>>
       /\ \A f \in DOMAIN files \ DOMAIN files' :
            \E q \in Slots : req[q].pc = "d_drive" /\ Acts(q) /\ req'[q].pc = "d_db"
       /\ \A l \in DOMAIN letters \ DOMAIN letters' :
            \E q \in Slots : req[q].pc = "d_db" /\ Acts(q)
       /\ \A f \in DOMAIN files' \ DOMAIN files : f = nextFid
      ]_vars

\* C5 witness: a delete was answered 500 and the Letter it named remains while
\* the Drive file its googleDriveId names is gone.
C5_Witness ==
    /\ resp.op = "delete" /\ resp.status = 500
    /\ resp.lid \in DOMAIN letters
    /\ letters[resp.lid].googleDriveId \notin DOMAIN files
    /\ letters[resp.lid].googleDriveId = resp.fileId

ReadOps == {"driveFiles", "driveFolder", "all", "collabs", "get"}

\* C6: Letters change only through the lifecycle.  A Letter appears only in a
\* step of a save, disappears only in a step of a delete; its title or
\* content changes only in a step of an update, which leaves collaborators
\* alone; its collaborators change only in a step of an add-collaborator,
\* which leaves title and content alone; userId and googleDriveId never
\* change; and the steps of the read routes and of fix-permissions leave the
\* collection as it is.
C6_LetterLifecycle ==
    [][/\ \A l \in DOMAIN letters' \ DOMAIN letters :
            \E r \in Slots : req[r].op = "save" /\ Acts(r)
       /\ \A l \in DOMAIN letters \ DOMAIN letters' :
            \E r \in Slots : req[r].op = "delete" /\ Acts(r)
       /\ \A l \in DOMAIN letters \cap DOMAIN letters' :
            /\ letters'[l].userId = letters[l].userId
            /\ letters'[l].googleDriveId = letters[l].googleDriveId
            /\ (letters'[l].title # letters[l].title
                  \/ letters'[l].content # letters[l].content) =>
                  /\ \E r \in Slots : req[r].op = "update" /\ Acts(r)
                  /\ letters'[l].collaborators = letters[l].collaborators
            /\ letters'[l].collaborators # letters[l].collaborators =>
                  /\ \E r \in Slots : req[r].op = "addCollab" /\ Acts(r)
                  /\ letters'[l].title = letters[l].title
                  /\ letters'[l].content = letters[l].content
       /\ \A r \in Slots :
            (req[r].op \in ReadOps \cup {"fixPerms"} /\ Acts(r)) => UNCHANGED letters
      ]_vars

\* C6 witness: a GET /:id was answered 200 while a letter with a collaborator
\* is stored, after a save and an add-collaborator.
C6_Witness ==
    /\ resp.op = "get" /\ resp.status = 200
    /\ nreq = 3
    /\ \E l \in DOMAIN letters : letters[l].collaborators # <<>>

\* every recorded collaborator was granted writer permission on the letter's file
CollaboratorsGranted ==
    \A l \in DOMAIN letters :
        \A i \in 1 .. Len(letters[l].collaborators) :
            <<letters[l].googleDriveId, letters[l].collaborators[i]>> \in permissions

\* C7: in every state each email in a Letter's collaborators has been granted
\* a writer permission on that letter's Drive file, and an add-collaborator
\* whose grant fails answers 500 and leaves the collaborators as they are.
C7_CollaboratorGranted ==
    [][/\ CollaboratorsGranted
       /\ CollaboratorsGranted'
       /\ \A r \in Slots :
            (req[r].pc = "a_grant" /\ Acts(r)) =>
               /\ UNCHANGED letters
               /\ <<req[r].doc.googleDriveId, req[r].email>> \notin permissions' =>
                     Answers(r, 500) /\ UNCHANGED permissions
      ]_vars

\* C7 witness: a letter has a collaborator, who holds the permission.
C7_Witness ==
    /\ resp.op = "addCollab" /\ resp.status = 200
    /\ resp.lid \in DOMAIN letters
    /\ letters[resp.lid].collaborators = <<"e3">>
    /\ <<letters[resp.lid].googleDriveId, "e3">> \in permissions

\* C8: a save is not stopped by the User lookup or creation failing: those
\* steps never answer and never touch Letters or Drive, and the save that
\* answers 201 has stored a new Letter with the requester's id and the file
\* it created, whether or not a User record exists.
C8_NoReferentialIntegrity ==
    [][\A r \in Slots :
         /\ (req[r].pc \in {"s_findUser", "s_saveUser"} /\ Acts(r)) =>
               /\ req'[r].pc \in {"s_saveUser", "s_folder"}
               /\ UNCHANGED <<letters, files, resp>>
         /\ (req[r].pc = "s_letter" /\ Acts(r) /\ resp'.status = 201) =>
               /\ Answers(r, 201)
               /\ resp'.lid \in DOMAIN letters' \ DOMAIN letters
               /\ letters'[resp'.lid].userId = UserIdOf(req[r].user)
               /\ letters'[resp'.lid].googleDriveId = req[r].fileId
               /\ UNCHANGED users
      ]_vars

\* C8 witness: a save was answered 201 and its Letter, whose Drive file
\* exists, has a userId that is the googleId of no User record.
C8_Witness ==
    /\ resp.op = "save" /\ resp.status = 201
    /\ resp.lid \in DOMAIN letters
    /\ letters[resp.lid].userId = resp.uid
    /\ letters[resp.lid].googleDriveId \in DOMAIN files
    /\ \A u \in users : u.googleId # letters[resp.lid].userId

\* C9: User records are never deleted or changed: every step keeps every
\* User record.
C9_UsersOnlyGrow ==
    [][\A u \in users : u \in users']_vars

\* C9 witness: a user's letter was deleted and the user's record is still there.
C9_Witness ==
    /\ resp.op = "delete" /\ resp.status = 200
    /\ resp.lid \notin DOMAIN letters
    /\ \E u \in users : u.googleId = resp.uid

\* C10: a Letter's collaborators list contains each email at most once.
C10_NoDuplicateCollaborator ==
    \A l \in DOMAIN letters :
        \A i, j \in 1 .. Len(letters[l].collaborators) :
            i # j => letters[l].collaborators[i] # letters[l].collaborators[j]

\* C11: POST /save answers 201 with a Letter stored exactly when the file
\* creation and the database write succeeded, whatever became of the grant.
\* The folder and file steps either go on without answering or answer 500,
\* and add no Letter; the file step that goes on has created a file with a
\* fresh id and keeps that id; the grant step, failed or not, never answers,
\* goes on to the database write with the same file id and touches neither
\* Letters nor files; the database step either answers 201 having added
\* exactly one Letter whose googleDriveId is the request's file id, or
\* answers 500 with the collection as it was; no other step answers 201 or
\* adds a Letter.
C11_SaveOutcome ==
    [][/\ \A r \in Slots :
            /\ (req[r].pc \in {"s_folder", "s_mkFolder", "s_create"} /\ Acts(r)) =>
                  /\ UNCHANGED letters
                  /\ req'[r] = Idle => Answers(r, 500) /\ UNCHANGED files
                  /\ req'[r] # Idle => resp' = resp
                  /\ (req[r].pc = "s_create" /\ req'[r] # Idle) =>
                        /\ req'[r].pc \in {"s_perm", "s_letter"}
                        /\ req'[r].fileId \in DOMAIN files' \ DOMAIN files
            /\ (req[r].pc = "s_perm" /\ Acts(r)) =>
                  /\ req'[r].pc = "s_letter"
                  /\ req'[r].fileId = req[r].fileId
                  /\ UNCHANGED <<letters, files, resp>>
            /\ (req[r].pc = "s_letter" /\ Acts(r)) =>
                  \/ /\ Answers(r, 201)
                     /\ resp'.lid \notin DOMAIN letters
                     /\ DOMAIN letters' = DOMAIN letters \cup {resp'.lid}
                     /\ letters'[resp'.lid].googleDriveId = req[r].fileId
                     /\ resp'.fileId = req[r].fileId
                     /\ \A l \in DOMAIN letters : letters'[l] = letters[l]
                  \/ /\ Answers(r, 500)
                     /\ UNCHANGED letters
            /\ (Acts(r) /\ req'[r] = Idle /\ resp'.status = 201) =>
                  req[r].pc = "s_letter"
       /\ DOMAIN letters' # DOMAIN letters \cap DOMAIN letters' =>
            \E r \in Slots : req[r].pc = "s_letter" /\ Answers(r, 201)
      ]_vars

\* C11 witness: a save was answered 201 and its Letter names the file the
\* request created, on which nobody was granted a permission (the grant
\* failed).
C11_Witness ==
    /\ resp.op = "save" /\ resp.status = 201
    /\ resp.lid \in DOMAIN letters
    /\ letters[resp.lid].googleDriveId = resp.fileId
    /\ resp.fileId \in DOMAIN files
    /\ resp.uid = "u1"
    /\ \A p \in permissions : p[1] # resp.fileId

\* the request in slot r is answered 500 by its Drive update or Drive lookup
UpdateDriveError(r) == req[r].pc \in {"u_drive", "u_get"} /\ Answers(r, 500)

\* C12 as stated: when the Drive update or the following Drive lookup fails,
\* the answer is 500, the Letter is left as the database write made it, and
\* the Drive file has the name and description it had before the request's
\* Drive update.
C12_DriveKeepsOldOnError ==
    [][\A r \in Slots :
         UpdateDriveError(r) =>
            LET fid == req[r].doc.googleDriveId
            IN /\ UNCHANGED letters
               /\ fid \in DOMAIN files' =>
                     LET old == IF req[r].pc = "u_get" THEN req[r].was ELSE files[fid]
                     IN /\ files'[fid].name = old.name
                        /\ files'[fid].desc = old.desc
      ]_vars

\* C12, amended: PUT /letters/:id writes the database before Drive and rolls
\* nothing back.  The lookup step writes nothing; the save step leaves Drive
\* alone, answers 500 only with the collection unchanged and, going on, has
\* given a Letter that was still as loaded the new title and content; the
\* Drive update step never touches Letters and either answers 500 with the
\* file unchanged or goes on with the file renamed and described anew; the
\* Drive lookup step answers 200 or 500 and changes neither Letters nor
\* files, so that after its 500 both the Letter and the file are new.
C12_UpdateNotRolledBack ==
    [][\A r \in Slots :
         /\ (req[r].pc = "u_find" /\ Acts(r)) => UNCHANGED stores
         /\ (req[r].pc = "u_save" /\ Acts(r)) =>
               /\ UNCHANGED files
               /\ req'[r] = Idle =>
                     /\ resp'.status \in {200, 500}
                     /\ resp'.status = 500 => UNCHANGED letters
               /\ (/\ req'[r] # Idle
                   /\ req[r].lid \in DOMAIN letters
                   /\ letters[req[r].lid] = req[r].doc) =>
                     /\ req'[r].pc = "u_drive"
                     /\ resp' = resp
                     /\ letters'[req[r].lid].title = req[r].title
                     /\ letters'[req[r].lid].content = req[r].content
         /\ (req[r].pc = "u_drive" /\ Acts(r)) =>
               LET fid == req[r].doc.googleDriveId
               IN /\ UNCHANGED letters
                  /\ \/ Answers(r, 500) /\ UNCHANGED files
                     \/ /\ req'[r].pc = "u_get"
                        /\ resp' = resp
                        /\ req'[r].was = files[fid]
                        /\ files'[fid].name = <<req[r].title>>
                        /\ files'[fid].desc = Description(req[r].content)
         /\ (req[r].pc = "u_get" /\ Acts(r)) =>
               /\ UNCHANGED <<letters, files>>
               /\ Answers(r, 200) \/ Answers(r, 500)
      ]_vars

\* C12 witness: the only update so far was answered 500 after its Drive
\* lookup failed: the Letter holds the new title and content, and the Drive
\* file, whose body is still the one saved, has the new name and description.
C12_Witness ==
    /\ resp.op = "update" /\ resp.status = 500
    /\ nreq = 2
    /\ resp.lid \in DOMAIN letters
    /\ letters[resp.lid].title = "t2"
    /\ letters[resp.lid].content = <<"b", "c">>
    /\ letters[resp.lid].googleDriveId \in DOMAIN files
    /\ files[letters[resp.lid].googleDriveId].body = <<"a">>
    /\ files[letters[resp.lid].googleDriveId].name = <<"t2">>
    /\ files[letters[resp.lid].googleDriveId].desc = Description(<<"b", "c">>)

=============================================================================
